---- MODULE Spec2Model ----
(***************************************************************************)
(* State-machine model of the options backtester: Portfolio, OptionLeg,    *)
(* OptionContract (backtester/instruments.py), MarketData and VolSurface   *)
(* (backtester/data.py), the pricing models (backtester/models.py) and     *)
(* BacktestEngine (backtester/backtest.py).  Spec is the engine run by a   *)
(* caller; LibrarySpec is the library operations called one at a time.     *)
(*                                                                         *)
(* Dates are day numbers, so pd.Timedelta(days=1) is 1.  Money and Greeks  *)
(* are integers.  Sequences are 1-based; every strategy index carried by   *)
(* the program (ledger strategy_index, strategies_to_remove) keeps its     *)
(* 0-based Python value.                                                   *)
(***************************************************************************)
EXTENDS Integers, Sequences, FiniteSets, TLC

\* ---------------------------------------------------------------- bounds
MaxDate == 3
MaxStrategies == 2
MaxRuns == 2
MaxShared == 1

\* ------------------------------------------------------------- constants
ContractSize == 100
InitialCapital == 100000

\* ---------------------------------------------------------------- inputs
Dates == 1..MaxDate
Spots == {1, 3}
StartDates == {1, 2}
EndDates == {MaxDate - 1, MaxDate}
CostChoices ==
    { [per_contract |-> 0, pct |-> 0], [per_contract |-> 1, pct |-> 2] }

VARIABLES
    time_index,            \* MarketData.time_index: sorted sequence of dates
    spot_data,             \* MarketData.spot_data: date -> close
    config,                \* BacktestConfig
    portfolio,             \* Portfolio: initial_cash, cash, strategies, trade_history
    daily_results,         \* BacktestEngine.daily_results
    current_date,          \* BacktestEngine.current_date (0 = None)
    prev_portfolio_value,  \* BacktestEngine.prev_portfolio_value
    prev_greeks,           \* BacktestEngine.prev_greeks
    phase,                 \* "idle" | "running" | "complete" | "failed"
    trading_dates,         \* dates of run()'s for loop not yet processed
    runs,                  \* number of run() calls started
    num_added,             \* number of strategy objects created (object identity)
    trace,                 \* history: one record per processed day
    risk_free_rates,       \* MarketData.risk_free_rates: date -> rate (per cent)
    dividend_yields,       \* MarketData.dividend_yields: date -> yield (per cent)
    vol_surfaces,          \* MarketData.vol_surfaces: date -> VolSurface
    heap,                  \* object store: object id -> object
    call,                  \* the last library call made directly, with its result
    engines                \* the BacktestEngine instances of a two-engine caller

\* the market context, the object store, the call record and the other
\* engine instances: none of them is written by the engine
library_vars ==
    << risk_free_rates, dividend_yields, vol_surfaces, heap, call, engines >>

vars == << time_index, spot_data, config, portfolio, daily_results,
           current_date, prev_portfolio_value, prev_greeks, phase,
           trading_dates, runs, num_added, trace, risk_free_rates,
           dividend_yields, vol_surfaces, heap, call,
          engines >>

\* --------------------------------------------------------------- helpers
Max(a, b) == IF a >= b THEN a ELSE b

Abs(a) == IF a >= 0 THEN a ELSE -a

Last(s) == s[Len(s)]

RECURSIVE SortedSeq(_)
SortedSeq(S) ==
    IF S = {} THEN << >>
    ELSE LET m == CHOOSE x \in S : \A y \in S : x <= y
         IN  << m >> \o SortedSeq(S \ {m})

RECURSIVE SumSeq(_)
SumSeq(s) == IF s = << >> THEN 0 ELSE Head(s) + SumSeq(Tail(s))

Elements(s) == { s[k] : k \in DOMAIN s }

ZeroGreeks == [delta |-> 0, gamma |-> 0, vega |-> 0, theta |-> 0, rho |-> 0]

AddGreeks(a, b) ==
    [delta |-> a.delta + b.delta, gamma |-> a.gamma + b.gamma,
     vega |-> a.vega + b.vega, theta |-> a.theta + b.theta,
     rho |-> a.rho + b.rho]

ScaleGreeks(g, k) ==
    [delta |-> g.delta * k, gamma |-> g.gamma * k, vega |-> g.vega * k,
     theta |-> g.theta * k, rho |-> g.rho * k]

\* ------------------------------------------------ strategies (the inputs)
\* variant of OptionContract: a strike of zero is accepted
OptionContract_nonnegative(option_type, style, strike, expiry) ==
    IF option_type \notin {"call", "put"}
           \/ style \notin {"european", "american"}
           \/ strike < 0
    THEN [status |-> "ValueError"]
    ELSE [status |-> "returned",
          value |-> [option_type |-> option_type, style |-> style,
                     strike |-> strike, expiry |-> expiry,
                     contract_size |-> ContractSize]]

\* OptionContract(underlying, option_type, style, strike, expiry): the
\* dataclass __init__ followed by __post_init__
OptionContract(option_type, style, strike, expiry) ==
    IF option_type \notin {"call", "put"}
    THEN [status |-> "ValueError"]
    ELSE IF style \notin {"european", "american"}
    THEN [status |-> "ValueError"]
    ELSE IF strike <= 0
    THEN [status |-> "ValueError"]
    ELSE [status |-> "returned",
          value |-> [option_type |-> option_type, style |-> style,
                     strike |-> strike, expiry |-> expiry,
                     contract_size |-> ContractSize]]

\* a contract constructed with the default style
Contract(type, strike, expiry) ==
    OptionContract(type, "european", strike, expiry).value

Leg(contract, quantity) == [contract |-> contract, quantity |-> quantity]

\* Leg layouts a caller can hand to add_strategy: a long call, a short put,
\* a long straddle, and a calendar spread (short near leg, long far leg).
Catalogue ==
    << << Leg(Contract("call", 2, 2), 1) >>,
       << Leg(Contract("put", 2, 2), -1) >>,
       << Leg(Contract("call", 2, 3), 1), Leg(Contract("put", 2, 3), 1) >>,
       << Leg(Contract("call", 2, 2), -1), Leg(Contract("call", 2, 5), 1) >> >>

\* ------------------------------------------------------------ MarketData
\* A market context as a value: the fields of a MarketData object.
MarketData(index, spots, rates, dividends, surfaces) ==
    [time_index |-> index, spot_data |-> spots, risk_free_rates |-> rates,
     dividend_yields |-> dividends, vol_surfaces |-> surfaces]

\* the engine's own market context (self.market_data)
market_data ==
    MarketData(time_index, spot_data, risk_free_rates, dividend_yields,
               vol_surfaces)

\* index[index <= date] is not empty: the [-1] of the fallback exists
has_prior(md, date) == \E k \in DOMAIN md.time_index : md.time_index[k] <= date

\* index[index <= date][-1]
prior_date(md, date) == Last(SelectSeq(md.time_index, LAMBDA d : d <= date))

\* variant of MarketData_get_spot: the fallback takes the first index date
\* after the query when there is one
MarketData_get_spot_next(md, date) ==
    IF date \in Elements(md.time_index)
    THEN md.spot_data[date]
    ELSE IF \E k \in DOMAIN md.time_index : md.time_index[k] > date
    THEN md.spot_data[Head(SelectSeq(md.time_index, LAMBDA d : d > date))]
    ELSE md.spot_data[prior_date(md, date)]

\* MarketData.get_spot; defined where has_prior holds, IndexError otherwise
MarketData_get_spot(md, date) ==
    IF date \in Elements(md.time_index)
    THEN md.spot_data[date]
    ELSE md.spot_data[prior_date(md, date)]

\* MarketData.get_rate and get_dividend_yield: the same lookup on the
\* series aligned to the spot index at construction
MarketData_get_rate(md, date) ==
    IF date \in Elements(md.time_index)
    THEN md.risk_free_rates[date]
    ELSE md.risk_free_rates[prior_date(md, date)]

MarketData_get_dividend_yield(md, date) ==
    IF date \in Elements(md.time_index)
    THEN md.dividend_yields[date]
    ELSE md.dividend_yields[prior_date(md, date)]

\* get_spot raises IndexError when no index date is <= date.
spot_available(date) == has_prior(market_data, date)

get_spot(date) == MarketData_get_spot(market_data, date)

\* ------------------------------------------------------------ VolSurface
\* Volatilities and rates are in per cent: 0.01 is 1, 0.20 is 20, 5.0 is
\* 500.  A float is a number or NaN.
Num(v) == [kind |-> "num", v |-> v]

NaN == [kind |-> "nan", v |-> 0]

VolFloor == 1
VolCap == 500
DefaultVol == 20

\* np.clip(x, lo, hi): NaN passes through
clip(x, lo, hi) ==
    IF x.kind = "nan" THEN NaN
    ELSE IF x.v < lo THEN Num(lo)
    ELSE IF x.v > hi THEN Num(hi)
    ELSE x

\* VolSurface(date, underlying, vol_data, interpolation_method) on a
\* strike-based table; vol_data rows are [strike, days_to_expiry, implied_vol]
VolSurface(date, vol_data, interpolation_method) ==
    [date |-> date, vol_data |-> vol_data,
     interpolation_method |-> interpolation_method]

\* twice the signed area of the triangle a, b, c of (strike, days) points
cross(a, b, c) ==
    (b.strike - a.strike) * (c.days_to_expiry - a.days_to_expiry)
        - (b.days_to_expiry - a.days_to_expiry) * (c.strike - a.strike)

\* (strike, days) lies in the convex hull of the samples: in a triangle of
\* three of them that is not flat
in_hull(surface, strike, days) ==
    LET vd == surface.vol_data
        q == [strike |-> strike, days_to_expiry |-> days]
    IN  \E i \in DOMAIN vd, j \in DOMAIN vd, k \in DOMAIN vd :
           /\ cross(vd[i], vd[j], vd[k]) > 0
           /\ cross(vd[i], vd[j], q) >= 0
           /\ cross(vd[j], vd[k], q) >= 0
           /\ cross(vd[k], vd[i], q) >= 0

\* What self.interpolator(strike, days_to_expiry) followed by float() can
\* produce.  The interpolants are numerical procedures with no integer
\* counterpart: the outcome is an input of the call.  An Rbf ('cubic' and
\* the default branch) gives some finite number, which may overshoot the
\* samples.  LinearNDInterpolator gives a number within the range of the
\* samples inside their convex hull and fill_value=np.nan outside it.
\* Either may raise.
InterpolatedValues == {-10, 0, 1, 20, 500, 700}

InterpolatorOutcomes(surface, strike, days) ==
    LET vd == surface.vol_data
        within == { v \in InterpolatedValues :
                      /\ \E k \in DOMAIN vd : vd[k].implied_vol <= v
                      /\ \E k \in DOMAIN vd : vd[k].implied_vol >= v }
    IN  { [kind |-> "raise", v |-> 0] }
            \cup (IF surface.interpolation_method = "linear"
                  THEN IF in_hull(surface, strike, days)
                       THEN { [kind |-> "num", v |-> v] : v \in within }
                       ELSE {NaN}
                  ELSE { [kind |-> "num", v |-> v] :
                             v \in InterpolatedValues })

\* expiry is a Timestamp ([kind |-> "date"]) or a number of days
days_to_expiry(surface, expiry) ==
    IF expiry.kind = "date" THEN expiry.v - surface.date ELSE expiry.v

\* distances.idxmin(): the first row at the least distance; the distance
\* is compared by its square
nearest_idx(surface, strike, days) ==
    LET vd == surface.vol_data
        dist2(k) == (vd[k].strike - strike) * (vd[k].strike - strike)
                    + (vd[k].days_to_expiry - days)
                          * (vd[k].days_to_expiry - days)
    IN  CHOOSE k \in DOMAIN vd :
            /\ \A j \in DOMAIN vd : dist2(k) <= dist2(j)
            /\ \A j \in DOMAIN vd : dist2(j) = dist2(k) => k <= j

\* VolSurface.iv(strike, expiry, spot); outcome is what the interpolant does
VolSurface_iv(surface, strike, expiry, outcome) ==
    LET days == days_to_expiry(surface, expiry)
    IN  IF days <= 0 THEN Num(0)
        ELSE IF outcome.kind = "raise"
             THEN Num(surface.vol_data[nearest_idx(surface, strike, days)]
                          .implied_vol)
             ELSE clip(outcome, VolFloor, VolCap)

\* variant of surface_date_for: min() without its key, the earliest surface
surface_date_for_first(md, date) ==
    LET keys == DOMAIN md.vol_surfaces
    IN  IF date \in keys THEN date
        ELSE IF keys = {} THEN 0
        ELSE CHOOSE d \in keys : \A e \in keys : d <= e

\* the surface get_implied_vol settles on (0 = none): the one keyed by
\* date, else min(sorted(keys), key=|d - date|), the first of the sorted
\* keys at the least distance
surface_date_for(md, date) ==
    LET keys == DOMAIN md.vol_surfaces
        surface_dates == SortedSeq(keys)
    IN  IF date \in keys THEN date
        ELSE IF surface_dates = << >> THEN 0
        ELSE surface_dates[
                 CHOOSE k \in DOMAIN surface_dates :
                     /\ \A j \in DOMAIN surface_dates :
                            Abs(surface_dates[k] - date)
                                <= Abs(surface_dates[j] - date)
                     /\ \A j \in DOMAIN surface_dates :
                            Abs(surface_dates[j] - date)
                                = Abs(surface_dates[k] - date) => k <= j]

\* MarketData.get_implied_vol(date, strike, expiry, spot); spot = 0 is
\* None (and any falsy spot), which makes the call read get_spot(date)
MarketData_get_implied_vol(md, date, strike, expiry, spot, outcome) ==
    LET chosen == surface_date_for(md, date)
    IN  IF chosen = 0
        THEN [status |-> "returned", surface |-> 0, value |-> Num(DefaultVol)]
        ELSE IF spot = 0 /\ ~ has_prior(md, date)
        THEN [status |-> "IndexError", surface |-> 0, value |-> Num(0)]
        ELSE [status |-> "returned", surface |-> chosen,
              value |-> VolSurface_iv(md.vol_surfaces[chosen], strike,
                                      [kind |-> "date", v |-> expiry],
                                      outcome)]

\* -------------------------------------------------------- OptionContract
intrinsic_value(contract, spot) ==
    IF contract.option_type = "call"
    THEN Max(spot - contract.strike, 0)
    ELSE Max(contract.strike - spot, 0)

contract_payoff(contract, spot) == intrinsic_value(contract, spot)

\* ----------------------------------------------------- BlackScholesModel
\* T <= 0 is the code's expiry branch, exact.  For T > 0 the closed form
\* (log, exp, normal cdf) has no integer counterpart: its value is stood
\* for by intrinsic value plus one unit of time value per remaining day,
\* and its Greeks by a sign-correct integer tuple.
live_price(option, S, days) == Max(intrinsic_value(option, S) + days, 0)

BlackScholes_price(option, date, md) ==
    LET S == MarketData_get_spot(md, date)
        days == option.expiry - date
    IN  IF days <= 0
        THEN intrinsic_value(option, S)
        ELSE live_price(option, S, days)

\* the T <= 0 branch of BlackScholesModel.greeks and BachelierModel.greeks
expiry_greeks(option, S) ==
    [delta |-> IF intrinsic_value(option, S) > 0 THEN 1 ELSE 0,
     gamma |-> 0, vega |-> 0, theta |-> 0, rho |-> 0]

BlackScholes_greeks(option, date, md) ==
    LET S == MarketData_get_spot(md, date)
        days == option.expiry - date
    IN  IF days <= 0
        THEN expiry_greeks(option, S)
        ELSE IF option.option_type = "call"
             THEN [delta |-> 1, gamma |-> 2, vega |-> days, theta |-> -1,
                   rho |-> days]
             ELSE [delta |-> -1, gamma |-> 2, vega |-> days, theta |-> -1,
                   rho |-> -days]

\* the engine prices and hedges with BlackScholesModel on its own context
bs_price(option, date) == BlackScholes_price(option, date, market_data)

bs_greeks(option, date) == BlackScholes_greeks(option, date, market_data)

\* sigma of the closed form for T > 0 (use_market_iv=True): the value of
\* get_implied_vol(date, K, expiry, S), the interpolant, where the surface
\* consults it, returning the regular DefaultVol
BlackScholes_sigma(option, date, md) ==
    MarketData_get_implied_vol(md, date, option.strike, option.expiry,
        MarketData_get_spot(md, date), Num(DefaultVol)).value

\* Whether the Greeks of the closed form are numbers.  For T > 0,
\* d1 = (...) / (sigma * sqrt_T) and gamma = exp(-qT) * pdf(d1) /
\* (S * sigma * sqrt_T) are numpy float divisions: with sigma = 0.0 they
\* give inf or NaN and 0/0 = NaN with a warning, no exception; a NaN sigma
\* makes every term NaN.
BlackScholes_greeks_defined(option, date, md) ==
    LET days == option.expiry - date
        sigma == BlackScholes_sigma(option, date, md)
    IN  days <= 0 \/ (sigma.kind = "num" /\ sigma.v # 0)

\* -------------------------------------------------------- BachelierModel
\* T <= 0 returns the intrinsic value; the normal-model closed form for
\* T > 0 is stood for as in BlackScholes_price
Bachelier_price(option, date, md) ==
    LET S == MarketData_get_spot(md, date)
        days == option.expiry - date
    IN  IF days <= 0
        THEN intrinsic_value(option, S)
        ELSE live_price(option, S, days)

\* rho is 0.0 in the normal model's Greeks
Bachelier_greeks(option, date, md) ==
    LET S == MarketData_get_spot(md, date)
        days == option.expiry - date
    IN  IF days <= 0
        THEN expiry_greeks(option, S)
        ELSE IF option.option_type = "call"
             THEN [delta |-> 1, gamma |-> 2, vega |-> days, theta |-> -1,
                   rho |-> 0]
             ELSE [delta |-> -1, gamma |-> 2, vega |-> days, theta |-> -1,
                   rho |-> 0]

\* ------------------------------------------------------------- SABRModel
\* variant of SABR_price: no expiry branch, the closed form at every date
SABR_price_always_live(option, date, md) ==
    live_price(option, MarketData_get_spot(md, date), option.expiry - date)

\* T <= 0 returns the intrinsic value; Black-Scholes on the SABR
\* volatility for T > 0 is stood for as in BlackScholes_price
SABR_price(option, date, md) ==
    LET S == MarketData_get_spot(md, date)
        days == option.expiry - date
    IN  IF days <= 0
        THEN intrinsic_value(option, S)
        ELSE live_price(option, S, days)

\* a model's price, by the class of the model (base_model.price)
price_of(model, option, date, md) ==
    CASE model = "BlackScholes" -> BlackScholes_price(option, date, md)
      [] model = "Bachelier" -> Bachelier_price(option, date, md)
      [] model = "SABR" -> SABR_price(option, date, md)

\* ---------------------------------------------------------- object store
\* A MarketData object holds references to its spot frame, its two series
\* and its dict of surfaces; heap is a sequence and a reference a position.
new_market_object(h, md) ==
    LET n == Len(h)
    IN  [heap |-> h \o
            << [kind |-> "DataFrame", index |-> md.time_index,
                values |-> md.spot_data],
               [kind |-> "Series", values |-> md.risk_free_rates],
               [kind |-> "Series", values |-> md.dividend_yields],
               [kind |-> "dict", values |-> md.vol_surfaces],
               [kind |-> "MarketData", spot_data |-> n + 1,
                risk_free_rates |-> n + 2, dividend_yields |-> n + 3,
                vol_surfaces |-> n + 4] >>,
         ref |-> n + 5]

\* the market context a reference stands for
deref(h, ref) ==
    LET top == h[ref]
    IN  MarketData(h[top.spot_data].index, h[top.spot_data].values,
                   h[top.risk_free_rates].values,
                   h[top.dividend_yields].values,
                   h[top.vol_surfaces].values)

\* the objects reachable from a MarketData reference
reachable(h, ref) ==
    {ref, h[ref].spot_data, h[ref].risk_free_rates, h[ref].dividend_yields,
     h[ref].vol_surfaces}

\* variant of deepcopy: copy.copy, a new MarketData object on the parts of
\* the old one
shallow_copy(h, ref) == [heap |-> Append(h, h[ref]), ref |-> Len(h) + 1]

\* copy.deepcopy(market_data): every reachable object is duplicated
deepcopy(h, ref) == new_market_object(h, deref(h, ref))

\* ---------------------------------------------------- SurfaceGreeksModel
\* bump_size = 0.01 and the 1% volatility and rate bumps, in per cent
BumpSize == 1
BumpVol == 1
BumpRate == 1

\* _bump_spot, _bump_vol, _bump_rate: a deep copy handed back as it is
\* (bump: the shift asked for, spot in hundredths, vol and rate in per cent)
bump_spot(h, ref, date, bump) == deepcopy(h, ref)

bump_vol(h, ref, date, option, bump) == deepcopy(h, ref)

bump_rate(h, ref, date, bump) == deepcopy(h, ref)

SurfaceGreeks_price(base_model, option, date, md) ==
    price_of(base_model, option, date, md)

\* SurfaceGreeksModel.greeks on the context at ref; bump_S = S * bump_size
\* is S hundredths, so /(2 * bump_S) is * 100 / (2 * S).  Returns the
\* Greeks, the object store and the references of the four scenarios.
SurfaceGreeks_greeks(base_model, option, date, h, ref) ==
    LET md == deref(h, ref)
        S == MarketData_get_spot(md, date)
        P0 == SurfaceGreeks_price(base_model, option, date, md)
        bump_S == S * BumpSize
        up == bump_spot(h, ref, date, bump_S)
        down == bump_spot(up.heap, ref, date, -bump_S)
        P_up == price_of(base_model, option, date, deref(up.heap, up.ref))
        P_down == price_of(base_model, option, date,
                           deref(down.heap, down.ref))
        delta == ((P_up - P_down) * 100) \div (2 * bump_S)
        gamma == ((P_up - 2 * P0 + P_down) * 10000) \div (bump_S * bump_S)
        vol_up == bump_vol(down.heap, ref, date, option, BumpVol)
        P_vol_up == price_of(base_model, option, date,
                             deref(vol_up.heap, vol_up.ref))
        vega == P_vol_up - P0
        date_next == date + 1
        theta == IF has_prior(md, date_next)
                 THEN price_of(base_model, option, date_next, md) - P0
                 ELSE 0
        r_up == bump_rate(vol_up.heap, ref, date, BumpRate)
        P_r_up == price_of(base_model, option, date,
                           deref(r_up.heap, r_up.ref))
        rho == P_r_up - P0
    IN  [greeks |-> [delta |-> delta, gamma |-> gamma, vega |-> vega,
                     theta |-> theta, rho |-> rho],
         heap |-> r_up.heap,
         scenarios |-> [spot_up |-> up.ref, spot_down |-> down.ref,
                        vol_up |-> vol_up.ref, rate_up |-> r_up.ref]]

\* SABRModel.greeks: SurfaceGreeksModel(base_model=self, bump_size=0.01)
SABR_greeks(option, date, h, ref) ==
    SurfaceGreeks_greeks("SABR", option, date, h, ref)

\* ------------------------------------------------------------- OptionLeg
leg_price(leg, date) ==
    bs_price(leg.contract, date) * leg.quantity * leg.contract.contract_size

leg_greeks(leg, date) ==
    ScaleGreeks(bs_greeks(leg.contract, date),
                leg.quantity * leg.contract.contract_size)

leg_payoff(leg, spot) ==
    contract_payoff(leg.contract, spot) * leg.quantity
        * leg.contract.contract_size

\* -------------------------------------------------------- OptionStrategy
RECURSIVE strategy_value(_, _)
strategy_value(legs, date) ==
    IF legs = << >> THEN 0
    ELSE leg_price(Head(legs), date) + strategy_value(Tail(legs), date)

RECURSIVE strategy_greeks(_, _)
strategy_greeks(legs, date) ==
    IF legs = << >> THEN ZeroGreeks
    ELSE AddGreeks(leg_greeks(Head(legs), date),
                   strategy_greeks(Tail(legs), date))

\* ------------------------------------------------------------- Portfolio
portfolio_add_strategy(p, strategy) ==
    [p EXCEPT !.strategies = Append(@, strategy)]

\* variant of remove_strategy: the strategy stays in the list and is
\* emptied of its legs
remove_strategy_legs(p, index) ==
    IF 0 <= index /\ index < Len(p.strategies)
    THEN [p EXCEPT !.strategies[index + 1].legs = << >>]
    ELSE p

\* list.pop(index), guarded by 0 <= index < len
remove_strategy(p, index) ==
    IF 0 <= index /\ index < Len(p.strategies)
    THEN [p EXCEPT !.strategies =
              SubSeq(@, 1, index) \o SubSeq(@, index + 2, Len(@))]
    ELSE p

RECURSIVE strategies_value(_, _)
strategies_value(strats, date) ==
    IF strats = << >> THEN 0
    ELSE strategy_value(Head(strats).legs, date)
             + strategies_value(Tail(strats), date)

portfolio_value(p, date) == p.cash + strategies_value(p.strategies, date)

RECURSIVE strategies_greeks(_, _)
strategies_greeks(strats, date) ==
    IF strats = << >> THEN ZeroGreeks
    ELSE AddGreeks(strategy_greeks(Head(strats).legs, date),
                   strategies_greeks(Tail(strats), date))

portfolio_greeks(p, date) == strategies_greeks(p.strategies, date)

\* the aggregated Greeks are numbers: every leg's Greeks are (a NaN term
\* makes the sum NaN)
portfolio_greeks_defined(p, date) ==
    \A i \in DOMAIN p.strategies :
        \A k \in DOMAIN p.strategies[i].legs :
            BlackScholes_greeks_defined(p.strategies[i].legs[k].contract,
                                        date, market_data)

\* variant of record_trade: the entry carries the balance before the flow
record_trade_stale(p, date, description, cash_flow, strategy_index) ==
    [p EXCEPT !.cash = @ + cash_flow,
              !.trade_history = Append(@,
                  [date |-> date, description |-> description,
                   cash_flow |-> cash_flow,
                   strategy_index |-> strategy_index,
                   cash_balance |-> p.cash])]

\* Portfolio.record_trade
record_trade(p, date, description, cash_flow, strategy_index) ==
    LET cash == p.cash + cash_flow
    IN  [p EXCEPT !.cash = cash,
                  !.trade_history = Append(@,
                      [date |-> date, description |-> description,
                       cash_flow |-> cash_flow,
                       strategy_index |-> strategy_index,
                       cash_balance |-> cash])]

\* --------------------------------------------------------- BacktestEngine
\* variant of txn_cost: the percentage cost taken on the signed entry value
txn_cost_signed(legs, entry_cost, cfg) ==
    SumSeq([k \in DOMAIN legs |-> Abs(legs[k].quantity)])
        * cfg.transaction_cost_per_contract
    + entry_cost * cfg.transaction_cost_pct

\* transaction cost of an entry: contracts * per-contract + |value| * pct
txn_cost(legs, entry_cost, cfg) ==
    SumSeq([k \in DOMAIN legs |-> Abs(legs[k].quantity)])
        * cfg.transaction_cost_per_contract
    + Abs(entry_cost) * cfg.transaction_cost_pct

\* BacktestEngine.add_strategy, given the engine's portfolio
engine_add_strategy(p, strategy, entry_date, cfg) ==
    LET p1 == portfolio_add_strategy(p, strategy)
        entry_cost == strategy_value(strategy.legs, entry_date)
        total_cost == entry_cost + txn_cost(strategy.legs, entry_cost, cfg)
    IN  record_trade(p1, entry_date, "Enter", -total_cost,
                     Len(p1.strategies) - 1)

\* variant of select_trading_dates: the end date left out of the mask
select_trading_dates_open(index, start_date, end_date) ==
    SelectSeq(index, LAMBDA d : d >= start_date /\ d < end_date)

\* the boolean mask of run(): index dates within [start_date, end_date]
select_trading_dates(index, start_date, end_date) ==
    SelectSeq(index, LAMBDA d : d >= start_date /\ d <= end_date)

ZeroAttribution ==
    [pnl_delta |-> 0, pnl_gamma |-> 0, pnl_vega |-> 0, pnl_theta |-> 0,
     pnl_rho |-> 0, pnl_residual |-> 0]

\* the "if not first day" test of _process_day
attribution_due(prev_value, cfg) == prev_value # cfg.initial_capital

\* 0.5 * gamma * dS ** 2; every aggregated gamma is a multiple of the
\* (even) contract size, so the halving is exact
half_gamma_term(gamma, dS) == (gamma * dS * dS) \div 2

\* variant of calculate_pnl_attribution: the Taylor terms taken from the
\* current day's Greeks
calculate_pnl_attribution_current(e, date, current_spot, current_greeks) ==
    LET prev_date == date - 1
    IN  IF ~ spot_available(prev_date)
        THEN ZeroAttribution
        ELSE LET prev_spot == get_spot(prev_date)
                 dS == current_spot - prev_spot
                 pnl_delta == current_greeks.delta * dS
                 pnl_gamma == half_gamma_term(current_greeks.gamma, dS)
                 pnl_theta == current_greeks.theta * 1
                 pnl_explained == pnl_delta + pnl_gamma + pnl_theta
                 actual_pnl == IF e.daily_results # << >>
                               THEN Last(e.daily_results).daily_pnl
                               ELSE 0
             IN  [pnl_delta |-> pnl_delta, pnl_gamma |-> pnl_gamma,
                  pnl_vega |-> 0, pnl_theta |-> pnl_theta, pnl_rho |-> 0,
                  pnl_residual |-> actual_pnl - pnl_explained]

\* _calculate_pnl_attribution of the engine e (self)
calculate_pnl_attribution(e, date, current_spot, current_greeks) ==
    LET prev_date == date - 1
    IN  IF ~ spot_available(prev_date)
        THEN ZeroAttribution
        ELSE LET prev_spot == get_spot(prev_date)
                 dS == current_spot - prev_spot
                 pnl_delta == e.prev_greeks.delta * dS
                 pnl_gamma == half_gamma_term(e.prev_greeks.gamma, dS)
                 pnl_theta == e.prev_greeks.theta * 1
                 pnl_vega == 0
                 pnl_rho == 0
                 pnl_explained == pnl_delta + pnl_gamma + pnl_theta
                                      + pnl_vega + pnl_rho
                 actual_pnl == IF e.daily_results # << >>
                               THEN Last(e.daily_results).daily_pnl
                               ELSE 0
             IN  [pnl_delta |-> pnl_delta, pnl_gamma |-> pnl_gamma,
                  pnl_vega |-> pnl_vega, pnl_theta |-> pnl_theta,
                  pnl_rho |-> pnl_rho,
                  pnl_residual |-> actual_pnl - pnl_explained]

\* variant of leg_expired: a leg expiring today is not yet expired
leg_expired_strict(leg, date) == leg.contract.expiry < date

leg_expired(leg, date) == leg.contract.expiry <= date

\* inner loop of _handle_expirations over the legs of strategy i;
\* acc = [p |-> portfolio, to_remove |-> strategies_to_remove]
RECURSIVE settle_legs(_, _, _, _)
settle_legs(acc, i, legs, date) ==
    IF legs = << >> THEN acc
    ELSE IF leg_expired(Head(legs), date)
         THEN LET spot == get_spot(date)
                  final_payoff == leg_payoff(Head(legs), spot)
                  p1 == [acc.p EXCEPT !.cash = @ + final_payoff]
                  tr == IF i \in Elements(acc.to_remove)
                        THEN acc.to_remove
                        ELSE Append(acc.to_remove, i)
                  p2 == record_trade(p1, date, "Expiration",
                                     final_payoff, i)
              IN  settle_legs([p |-> p2, to_remove |-> tr], i,
                              Tail(legs), date)
         ELSE settle_legs(acc, i, Tail(legs), date)

\* outer loop: enumerate(self.portfolio.strategies) from 0-based index i
RECURSIVE settle_strategies(_, _, _)
settle_strategies(acc, i, date) ==
    IF i >= Len(acc.p.strategies) THEN acc
    ELSE settle_strategies(
             settle_legs(acc, i, acc.p.strategies[i + 1].legs, date),
             i + 1, date)

\* variant of sorted_reverse: the indices taken in the order collected
sorted_forward(s) == s

\* sorted(strategies_to_remove, reverse=True)
RECURSIVE sorted_reverse(_)
sorted_reverse(s) ==
    IF s = << >> THEN << >>
    ELSE LET m == CHOOSE k \in DOMAIN s : \A j \in DOMAIN s : s[k] >= s[j]
         IN  << s[m] >> \o sorted_reverse(
                 SubSeq(s, 1, m - 1) \o SubSeq(s, m + 1, Len(s)))

RECURSIVE remove_all(_, _)
remove_all(p, order) ==
    IF order = << >> THEN p
    ELSE remove_all(remove_strategy(p, Head(order)), Tail(order))

handle_expirations(p, date) ==
    LET acc == settle_strategies([p |-> p, to_remove |-> << >>], 0, date)
    IN  remove_all(acc.p, sorted_reverse(acc.to_remove))

\* variant of daily_pnl_of: P&L measured from the initial capital
daily_pnl_from_start(value, prev_value) == value - InitialCapital

daily_pnl_of(value, prev_value) == value - prev_value

\* (portfolio_value - initial_capital) / initial_capital, kept as a ratio
total_return_of(value, cfg) ==
    [num |-> value - cfg.initial_capital, den |-> cfg.initial_capital]

\* --------------------------------------------------------- _process_day
\* the fields of a BacktestEngine instance that a processed day writes
EngineState(p, results, date, prev_value, prev_g) ==
    [portfolio |-> p, daily_results |-> results, current_date |-> date,
     prev_portfolio_value |-> prev_value, prev_greeks |-> prev_g]

\* the engine of the state variables
engine_state ==
    EngineState(portfolio, daily_results, current_date,
                prev_portfolio_value, prev_greeks)

\* variant of result_cash: the cash read before the settlement
result_cash_valued(valued, settled) == valued.cash

\* 'cash': self.portfolio.cash of the result row, read after
\* _handle_expirations; valued is the portfolio that was valued, settled
\* the portfolio _handle_expirations has left
result_cash(valued, settled) == settled.cash

\* current_date = date; _process_day(date) on the engine e.  Returns the
\* engine afterwards and whether the attribution was run.
process_day(e, date, cfg) ==
    LET spot == get_spot(date)
        value == portfolio_value(e.portfolio, date)
        greeks == portfolio_greeks(e.portfolio, date)
        daily_pnl == daily_pnl_of(value, e.prev_portfolio_value)
        total_return == total_return_of(value, cfg)
        due == attribution_due(e.prev_portfolio_value, cfg)
        pnl_attribution == IF due
                           THEN calculate_pnl_attribution(e, date, spot,
                                                          greeks)
                           ELSE ZeroAttribution
        settled == handle_expirations(e.portfolio, date)
        result == [date |-> date, spot |-> spot,
                   portfolio_value |-> value,
                   cash |-> result_cash(e.portfolio, settled),
                   daily_pnl |-> daily_pnl,
                   total_return |-> total_return,
                   delta |-> greeks.delta, gamma |-> greeks.gamma,
                   vega |-> greeks.vega, theta |-> greeks.theta,
                   rho |-> greeks.rho,
                   pnl_delta |-> pnl_attribution.pnl_delta,
                   pnl_gamma |-> pnl_attribution.pnl_gamma,
                   pnl_vega |-> pnl_attribution.pnl_vega,
                   pnl_theta |-> pnl_attribution.pnl_theta,
                   pnl_rho |-> pnl_attribution.pnl_rho,
                   pnl_residual |-> pnl_attribution.pnl_residual,
                   num_strategies |-> Len(settled.strategies)]
    IN  [engine |-> EngineState(settled,
                                Append(e.daily_results, result), date,
                                value, greeks),
         attribution_run |-> due]

\* the sample table of the surface dated d; raw volatilities of 600 and 0
\* lie outside the clamp.  Odd dates are 'cubic' surfaces, even 'linear'.
SurfaceAt(d) ==
    VolSurface(d,
               << [strike |-> 2, days_to_expiry |-> 1, implied_vol |-> 20 + d],
                  [strike |-> 2, days_to_expiry |-> 3, implied_vol |-> 600],
                  [strike |-> 4, days_to_expiry |-> 1, implied_vol |-> 0] >>,
               IF d % 2 = 1 THEN "cubic" ELSE "linear")

\* ------------------------------------------------------------------ Init
TimeIndexChoices ==
    { SortedSeq(S) : S \in { T \in SUBSET Dates : 1 \in T /\ MaxDate \in T } }

ConfigChoices ==
    { [start_date |-> s, end_date |-> e, initial_capital |-> InitialCapital,
       transaction_cost_per_contract |-> c.per_contract,
       transaction_cost_pct |-> c.pct] :
          s \in StartDates, e \in { x \in EndDates : x >= 1 }, c \in CostChoices }

\* pd.Series(0.05, index=time_index) and pd.Series(0.0, index=time_index)
DefaultRate == 5
DefaultDividend == 0

NoCall == [op |-> "none"]

\* the instances a caller running two engines constructs
Engines == {1, 2}

\* BacktestEngine(market_data, config): the attributes __init__ sets on the
\* instance, with the position of the instance in run() (phase,
\* trading_dates) and the add_strategy calls it has received
new_engine(cfg) ==
    [portfolio |-> [initial_cash |-> cfg.initial_capital,
                    cash |-> cfg.initial_capital,
                    strategies |-> << >>, trade_history |-> << >>],
     daily_results |-> << >>,
     current_date |-> 0,
     prev_portfolio_value |-> cfg.initial_capital,
     prev_greeks |-> ZeroGreeks,
     phase |-> "idle",
     trading_dates |-> << >>,
     calls |-> << >>]

\* a market context and an engine constructed on it, the configuration
\* drawn from configs and the surfaces of the context from surfaces
EngineInit(configs, surfaces) ==
    /\ time_index \in TimeIndexChoices
    /\ spot_data \in [Elements(time_index) -> Spots]
    /\ config \in configs
    /\ portfolio = [initial_cash |-> config.initial_capital,
                    cash |-> config.initial_capital,
                    strategies |-> << >>, trade_history |-> << >>]
    /\ daily_results = << >>
    /\ current_date = 0
    /\ prev_portfolio_value = config.initial_capital
    /\ prev_greeks = ZeroGreeks
    /\ phase = "idle"
    /\ trading_dates = << >>
    /\ runs = 0
    /\ num_added = 0
    /\ trace = << >>
    /\ risk_free_rates = [d \in Elements(time_index) |-> DefaultRate]
    /\ dividend_yields = [d \in Elements(time_index) |-> DefaultDividend]
    /\ vol_surfaces \in surfaces
    /\ heap = new_market_object(<< >>, market_data).heap
    /\ call = NoCall
    /\ engines = [i \in Engines |-> new_engine(config)]

Init ==
    EngineInit({ c \in ConfigChoices : c.start_date <= c.end_date },
               { << >> })

\* --------------------------------------------------------------- actions
\* entry dates handed to add_strategy: market dates up to the backtest start
EntryDates == { d \in Elements(time_index) : d <= config.start_date }

\* engine.add_strategy(strategy, entry_date), before run()
AddStrategy ==
    /\ phase = "idle"
    /\ Len(portfolio.strategies) < MaxStrategies
    /\ \E k \in DOMAIN Catalogue, entry_date \in EntryDates :
          LET strategy == [id |-> num_added + 1, legs |-> Catalogue[k]]
          IN  portfolio' = engine_add_strategy(portfolio, strategy,
                                               entry_date, config)
    /\ num_added' = num_added + 1
    /\ UNCHANGED << time_index, spot_data, config, daily_results,
                    current_date, prev_portfolio_value, prev_greeks, phase,
                    trading_dates, runs, trace >>
    /\ UNCHANGED library_vars

\* run(): select the trading dates and enter the loop
RunStart ==
    /\ phase \in {"idle", "complete"}
    /\ runs < MaxRuns
    /\ trading_dates' = select_trading_dates(time_index, config.start_date,
                                             config.end_date)
    /\ phase' = "running"
    /\ runs' = runs + 1
    /\ UNCHANGED << time_index, spot_data, config, portfolio, daily_results,
                    current_date, prev_portfolio_value, prev_greeks,
                    num_added, trace >>
    /\ UNCHANGED library_vars

\* one iteration of run()'s loop: current_date = date; _process_day(date)
ProcessDay ==
    /\ phase = "running"
    /\ trading_dates # << >>
    /\ LET date == Head(trading_dates)
           done == process_day(engine_state, date, config)
       IN  /\ current_date' = done.engine.current_date
           /\ portfolio' = done.engine.portfolio
           /\ daily_results' = done.engine.daily_results
           /\ prev_portfolio_value' = done.engine.prev_portfolio_value
           /\ prev_greeks' = done.engine.prev_greeks
           /\ trace' = Append(trace,
                  [run |-> runs, date |-> date,
                   valued |-> portfolio.strategies,
                   remaining |-> done.engine.portfolio.strategies,
                   attribution_run |-> done.attribution_run,
                   cash_before |-> portfolio.cash,
                   ledger_before |-> Len(portfolio.trade_history),
                   greeks_defined |->
                       portfolio_greeks_defined(portfolio, date)])
    /\ trading_dates' = Tail(trading_dates)
    /\ UNCHANGED << time_index, spot_data, config, phase, runs, num_added >>
    /\ UNCHANGED library_vars

\* the loop is exhausted: build the results table and report; the report
\* reads results_df['portfolio_value'], a KeyError when no day was processed
RunFinish ==
    /\ phase = "running"
    /\ trading_dates = << >>
    /\ phase' = IF daily_results = << >> THEN "failed" ELSE "complete"
    /\ UNCHANGED << time_index, spot_data, config, portfolio, daily_results,
                    current_date, prev_portfolio_value, prev_greeks,
                    trading_dates, runs, num_added, trace >>
    /\ UNCHANGED library_vars

Next == AddStrategy \/ RunStart \/ ProcessDay \/ RunFinish

Spec == Init /\ [][Next]_vars

\* ========================================================= with a surface
\* The engine on a context that holds one volatility surface, run over
\* the whole series at no transaction cost.
SurfaceInit ==
    EngineInit({ c \in ConfigChoices :
                   /\ c.start_date = Head(SortedSeq(StartDates))
                   /\ c.end_date = MaxDate
                   /\ c.transaction_cost_pct = 0 },
               { [d \in {k} |-> SurfaceAt(k)] : k \in Dates })

SurfaceSpec == SurfaceInit /\ [][Next]_vars

\* ============================================================ direct calls
\* A second specification: the library operations called directly on a
\* market context, one call at a time, the arguments drawn from small sets.
MaxHeld == 3

SurfaceChoices ==
    { [d \in K |-> SurfaceAt(d)] :
          K \in { X \in SUBSET Dates : Cardinality(X) <= 2 } }

QueryDates == 0..(MaxDate + 1)
Strikes == {2, 4}
Expiries == {2, 5}
ExpiryArgs ==
    { [kind |-> "date", v |-> e] : e \in Expiries }
        \cup { [kind |-> "days", v |-> n] : n \in {0, 1, 3} }
SpotArgs == {0, 3}
Options ==
    { Contract(t, 2, e) : t \in {"call", "put"}, e \in Expiries \cup {3} }
Models == {"BlackScholes", "Bachelier", "SABR", "SurfaceGreeks"}

\* SurfaceGreeksModel() has base_model BlackScholesModel
base_of(model) == IF model = "SurfaceGreeks" THEN "BlackScholes" ELSE model

\* portfolios handed to _handle_expirations: up to MaxHeld strategies of
\* the catalogue, the k-th object created having id k
HeldChoices ==
    UNION { { [k \in 1..n |-> [id |-> k, legs |-> Catalogue[c[k]]]] :
                  c \in [1..n -> DOMAIN Catalogue] } : n \in 1..MaxHeld }

LibraryInit ==
    /\ time_index \in TimeIndexChoices
    /\ spot_data \in [Elements(time_index) -> Spots]
    /\ risk_free_rates = [d \in Elements(time_index) |-> DefaultRate]
    /\ dividend_yields = [d \in Elements(time_index) |-> DefaultDividend]
    /\ vol_surfaces \in SurfaceChoices
    /\ heap = new_market_object(<< >>, market_data).heap
    /\ call = NoCall
    /\ config = [start_date |-> 1, end_date |-> MaxDate,
                 initial_capital |-> InitialCapital,
                 transaction_cost_per_contract |-> 0,
                 transaction_cost_pct |-> 0]
    /\ portfolio = [initial_cash |-> InitialCapital, cash |-> InitialCapital,
                    strategies |-> << >>, trade_history |-> << >>]
    /\ daily_results = << >>
    /\ current_date = 0
    /\ prev_portfolio_value = InitialCapital
    /\ prev_greeks = ZeroGreeks
    /\ phase = "library"
    /\ trading_dates = << >>
    /\ runs = 0
    /\ num_added = 0
    /\ trace = << >>
    /\ engines = [i \in Engines |-> new_engine(config)]

engine_vars ==
    << time_index, spot_data, config, portfolio, daily_results, current_date,
       prev_portfolio_value, prev_greeks, phase, trading_dates, runs,
       num_added, trace, risk_free_rates, dividend_yields, vol_surfaces,
       engines >>

\* the caller's context is the object built first
CallerRef == new_market_object(<< >>, market_data).ref

\* market_data.get_spot(date)
CallGetSpot ==
    /\ phase = "library"
    /\ call = NoCall
    /\ \E date \in QueryDates :
          call' = IF has_prior(market_data, date)
                  THEN [op |-> "get_spot", date |-> date,
                        status |-> "returned",
                        value |-> MarketData_get_spot(market_data, date)]
                  ELSE [op |-> "get_spot", date |-> date,
                        status |-> "IndexError", value |-> 0]
    /\ heap' = heap
    /\ UNCHANGED engine_vars

\* market_data.get_implied_vol(date, strike, expiry, spot)
CallGetImpliedVol ==
    /\ phase = "library"
    /\ call = NoCall
    /\ \E date \in QueryDates, strike \in Strikes, expiry \in Expiries,
          spot \in SpotArgs :
          LET chosen == surface_date_for(market_data, date)
          IN  \E outcome \in IF chosen = 0
                              THEN { [kind |-> "raise", v |-> 0] }
                              ELSE InterpolatorOutcomes(vol_surfaces[chosen],
                                       strike, expiry - chosen) :
                 LET r == MarketData_get_implied_vol(market_data, date,
                              strike, expiry, spot, outcome)
                 IN  call' = [op |-> "get_implied_vol", date |-> date,
                              strike |-> strike, expiry |-> expiry,
                              spot |-> spot, outcome |-> outcome,
                              status |-> r.status, surface |-> r.surface,
                              value |-> r.value]
    /\ heap' = heap
    /\ UNCHANGED engine_vars

\* surface.iv(strike, expiry) on one of the context's surfaces
CallIv ==
    /\ phase = "library"
    /\ call = NoCall
    /\ \E d \in DOMAIN vol_surfaces, strike \in Strikes,
          expiry \in ExpiryArgs :
          \E outcome \in InterpolatorOutcomes(vol_surfaces[d], strike,
                              days_to_expiry(vol_surfaces[d], expiry)) :
             call' = [op |-> "iv", surface |-> d, strike |-> strike,
                      expiry |-> expiry, outcome |-> outcome,
                      value |-> VolSurface_iv(vol_surfaces[d], strike,
                                              expiry, outcome)]
    /\ heap' = heap
    /\ UNCHANGED engine_vars

\* model.price(option, date, market_data), date covered by the spot series
CallPrice ==
    /\ phase = "library"
    /\ call = NoCall
    /\ \E model \in Models, option \in Options, date \in QueryDates :
          /\ has_prior(market_data, date)
          /\ call' = [op |-> "price", model |-> model, option |-> option,
                      date |-> date,
                      value |-> IF model = "SurfaceGreeks"
                                THEN SurfaceGreeks_price(base_of(model),
                                         option, date, market_data)
                                ELSE price_of(model, option, date,
                                              market_data)]
    /\ heap' = heap
    /\ UNCHANGED engine_vars

\* model.greeks(option, date, market_data): the closed-form models read
\* the context; SurfaceGreeksModel and SABRModel bump and revalue
CallGreeks ==
    /\ phase = "library"
    /\ call = NoCall
    /\ \E model \in Models, option \in Options, date \in QueryDates :
          /\ has_prior(market_data, date)
          /\ IF model \in {"SurfaceGreeks", "SABR"}
             THEN LET r == SurfaceGreeks_greeks(base_of(model), option, date,
                                                heap, CallerRef)
                  IN  /\ heap' = r.heap
                      /\ call' = [op |-> "greeks", model |-> model,
                                  option |-> option, date |-> date,
                                  greeks |-> r.greeks,
                                  scenarios |-> r.scenarios]
             ELSE /\ heap' = heap
                  /\ call' = [op |-> "greeks", model |-> model,
                              option |-> option, date |-> date,
                              greeks |-> IF model = "BlackScholes"
                                         THEN BlackScholes_greeks(option,
                                                  date, deref(heap, CallerRef))
                                         ELSE Bachelier_greeks(option, date,
                                                  deref(heap, CallerRef)),
                              scenarios |-> << >>]
    /\ UNCHANGED engine_vars

\* engine._handle_expirations(date) on a portfolio holding the strategies
CallHandleExpirations ==
    /\ phase = "library"
    /\ call = NoCall
    /\ \E held \in HeldChoices, date \in Dates :
          LET p == [portfolio EXCEPT !.strategies = held]
              settled == handle_expirations(p, date)
          IN  call' = [op |-> "handle_expirations", date |-> date,
                       before |-> held, after |-> settled.strategies]
    /\ heap' = heap
    /\ UNCHANGED engine_vars

\* arguments handed to the OptionContract constructor
OptionTypeArgs == {"call", "put", "straddle"}
StyleArgs == {"european", "american", "bermudan"}
StrikeArgs == {-1, 0, 2}

\* OptionContract(underlying, option_type, style, strike, expiry)
CallOptionContract ==
    /\ phase = "library"
    /\ call = NoCall
    /\ \E option_type \in OptionTypeArgs, style \in StyleArgs,
          strike \in StrikeArgs, expiry \in Expiries :
          LET made == OptionContract(option_type, style, strike, expiry)
          IN  call' = [op |-> "OptionContract", option_type |-> option_type,
                       style |-> style, strike |-> strike,
                       expiry |-> expiry, status |-> made.status,
                       made |-> IF made.status = "returned"
                                THEN << made.value >> ELSE << >>]
    /\ heap' = heap
    /\ UNCHANGED engine_vars

\* the caller is done with the result: the record is dropped and the
\* copies the call made, now unreachable, are collected
Return ==
    /\ phase = "library"
    /\ call # NoCall
    /\ call' = NoCall
    /\ heap' = SubSeq(heap, 1, CallerRef)
    /\ UNCHANGED engine_vars

LibraryNext ==
    \/ CallGetSpot
    \/ CallGetImpliedVol
    \/ CallIv
    \/ CallPrice
    \/ CallGreeks
    \/ CallHandleExpirations
    \/ CallOptionContract
    \/ Return

LibrarySpec == LibraryInit /\ [][LibraryNext]_vars

\* ============================================================ two engines
\* A caller that constructs two engines on the same market context, hands
\* the same strategy objects to both and runs each of them once over the
\* whole series, taking the steps of the two runs in any order.
single_vars ==
    << time_index, spot_data, config, portfolio, daily_results, current_date,
       prev_portfolio_value, prev_greeks, phase, trading_dates, runs, trace,
       risk_free_rates, dividend_yields, vol_surfaces, heap, call >>

InstanceInit ==
    EngineInit({ c \in ConfigChoices :
                   /\ c.start_date = Head(SortedSeq(StartDates))
                   /\ c.end_date = MaxDate },
               { << >> })

\* exit_date arguments of add_strategy: None (no date) or the first day of
\* the backtest
ExitDates == { << >>, << config.start_date >> }

\* prev_portfolio_value and prev_greeks kept in one place for all the
\* instances: every engine reads what the engine furthest along has left
instance_of_shared(es, i) ==
    LET last == CHOOSE j \in DOMAIN es :
                    \A k \in DOMAIN es :
                        es[j].current_date >= es[k].current_date
    IN  [es[i] EXCEPT
            !.prev_portfolio_value = es[last].prev_portfolio_value,
            !.prev_greeks = es[last].prev_greeks]

\* self: the attributes __init__ has set on the instance itself
instance_of(es, i) == es[i]

\* engine.add_strategy(strategy, entry_date, exit_date) on each engine, with
\* one strategy object; exit_date is kept nowhere by the engine and is
\* recorded with the call
AddShared ==
    /\ \A i \in Engines : engines[i].phase = "idle"
    /\ num_added < MaxShared
    /\ \E k \in DOMAIN Catalogue, exit_date \in ExitDates :
          LET strategy == [id |-> num_added + 1, legs |-> Catalogue[k]]
              entry_date == Head(time_index)
          IN  engines' =
                [i \in Engines |->
                   [engines[i] EXCEPT
                      !.portfolio = engine_add_strategy(@, strategy,
                                                        entry_date, config),
                      !.calls = Append(@, [strategy |-> strategy,
                                           entry_date |-> entry_date,
                                           exit_date |-> exit_date])]]
    /\ num_added' = num_added + 1
    /\ UNCHANGED single_vars

\* engines[i].run(), up to its loop
EngineRunStart(i) ==
    /\ engines[i].phase = "idle"
    /\ engines' = [engines EXCEPT
          ![i].trading_dates = select_trading_dates(time_index,
                                   config.start_date, config.end_date),
          ![i].phase = "running"]
    /\ UNCHANGED << single_vars, num_added >>

\* one iteration of the loop of engines[i].run()
EngineProcessDay(i) ==
    /\ engines[i].phase = "running"
    /\ engines[i].trading_dates # << >>
    /\ LET self == instance_of(engines, i)
           date == Head(self.trading_dates)
           done == process_day(self, date, config)
       IN  engines' = [engines EXCEPT
              ![i].portfolio = done.engine.portfolio,
              ![i].daily_results = done.engine.daily_results,
              ![i].current_date = done.engine.current_date,
              ![i].prev_portfolio_value = done.engine.prev_portfolio_value,
              ![i].prev_greeks = done.engine.prev_greeks,
              ![i].trading_dates = Tail(@)]
    /\ UNCHANGED << single_vars, num_added >>

\* the loop of engines[i].run() is exhausted
EngineRunFinish(i) ==
    /\ engines[i].phase = "running"
    /\ engines[i].trading_dates = << >>
    /\ engines' = [engines EXCEPT
          ![i].phase = IF engines[i].daily_results = << >>
                       THEN "failed" ELSE "complete"]
    /\ UNCHANGED << single_vars, num_added >>

InstanceNext ==
    \/ AddShared
    \/ \E i \in Engines : EngineRunStart(i)
    \/ \E i \in Engines : EngineProcessDay(i)
    \/ \E i \in Engines : EngineRunFinish(i)

InstanceSpec == InstanceInit /\ [][InstanceNext]_vars

\* the engine that received the add_strategy calls and ran alone over the
\* dates
RECURSIVE add_all(_, _, _)
add_all(p, calls, cfg) ==
    IF calls = << >>
    THEN p
    ELSE add_all(engine_add_strategy(p, Head(calls).strategy,
                                     Head(calls).entry_date, cfg),
                 Tail(calls), cfg)

RECURSIVE run_days(_, _, _)
run_days(e, dates, cfg) ==
    IF dates = << >>
    THEN e
    ELSE run_days(process_day(e, Head(dates), cfg).engine, Tail(dates), cfg)

run_alone(calls, dates, cfg) ==
    LET fresh == new_engine(cfg)
    IN  run_days([fresh EXCEPT
                     !.portfolio = add_all(fresh.portfolio, calls, cfg)],
                 dates, cfg)

\* ------------------------------------------------- vocabulary of the claims
CashFlowSum(history) ==
    SumSeq([k \in DOMAIN history |-> history[k].cash_flow])

\* a step of the model that processes a day (appends a result row)
DayStep == Len(daily_results') = Len(daily_results) + 1

\* a step of the model that is a call of BacktestEngine.add_strategy
AddStep == num_added' = num_added + 1

RECURSIVE AllLegs(_)
AllLegs(strats) ==
    IF strats = << >> THEN << >>
    ELSE Head(strats).legs \o AllLegs(Tail(strats))

ExpiredLegs(strats, date) ==
    SelectSeq(AllLegs(strats), LAMBDA l : l.contract.expiry <= date)

\* intrinsic value at spot * quantity * contract size
SettlementPayoff(l, spot) ==
    (IF l.contract.option_type = "call"
     THEN Max(spot - l.contract.strike, 0)
     ELSE Max(l.contract.strike - spot, 0))
        * l.quantity * l.contract.contract_size

ExpiredPayoffs(strats, date, spot) ==
    LET legs == ExpiredLegs(strats, date)
    IN  [k \in DOMAIN legs |-> SettlementPayoff(legs[k], spot)]

HasExpiredLeg(s, date) ==
    \E k \in DOMAIN s.legs : s.legs[k].contract.expiry <= date

IntervalDates ==
    { d \in Elements(time_index) :
          d >= config.start_date /\ d <= config.end_date }

RowGreeks(row) ==
    [delta |-> row.delta, gamma |-> row.gamma, vega |-> row.vega,
     theta |-> row.theta, rho |-> row.rho]

RowAttributionZero(row) ==
    /\ row.pnl_delta = 0 /\ row.pnl_gamma = 0 /\ row.pnl_vega = 0
    /\ row.pnl_theta = 0 /\ row.pnl_rho = 0 /\ row.pnl_residual = 0

\* the market date whose spot the attribution of `date` is measured from
PrevSpotKnown(date) == \E d \in Elements(time_index) : d <= date - 1

PrevSpot(date) ==
    LET prior == { d \in Elements(time_index) : d <= date - 1 }
    IN  spot_data[CHOOSE d \in prior : \A e \in prior : e <= d]

\* row k carries the Taylor terms of the previous row's Greeks
RowFollowsAttribution(k) ==
    LET row == daily_results[k]
        prev == daily_results[k - 1]
        dS == row.spot - PrevSpot(row.date)
    IN  IF PrevSpotKnown(row.date)
        THEN /\ row.pnl_delta = prev.delta * dS
             /\ 2 * row.pnl_gamma = prev.gamma * dS * dS
             /\ row.pnl_theta = prev.theta
             /\ row.pnl_vega = 0
             /\ row.pnl_rho = 0
        ELSE RowAttributionZero(row)

\* ------------------------------------------------------------------- C1
\* C1: in every reachable state, portfolio.cash equals initial_cash plus
\* the sum of the cash_flow fields of all entries of the trade ledger.
C1_CashEqualsLedgerSum ==
    portfolio.cash
        = portfolio.initial_cash + CashFlowSum(portfolio.trade_history)

\* ------------------------------------------------------------------- C2
\* C2: in every result row the six attribution components add up to that
\* row's daily_pnl.
C2_AttributionSumsToDailyPnl ==
    \A k \in DOMAIN daily_results :
        LET row == daily_results[k]
        IN  row.pnl_delta + row.pnl_gamma + row.pnl_vega + row.pnl_theta
                + row.pnl_rho + row.pnl_residual = row.daily_pnl

\* ------------------------------------------------------------------- C3
\* C3: over the expiration step of a processed day, cash changes by exactly
\* the sum of the settled legs' payoffs (each credited once), and one
\* ledger entry carrying that payoff is recorded per settled leg.
C3_ExpirationCreditsPayoffOnce ==
    [][ DayStep =>
          LET row == Last(daily_results')
              payoffs == ExpiredPayoffs(portfolio.strategies, row.date,
                                        row.spot)
              before == Len(portfolio.trade_history)
          IN  /\ portfolio'.cash - portfolio.cash = SumSeq(payoffs)
              /\ Len(portfolio'.trade_history) = before + Len(payoffs)
              /\ \A k \in DOMAIN payoffs :
                    portfolio'.trade_history[before + k].cash_flow
                        = payoffs[k] ]_vars

\* ------------------------------------------------------------------- C4
\* C4: a strategy that a processed day finds with a leg of expiry <= the
\* date is removed from the portfolio during that day, by exactly one
\* removal, and is not valued on any later processed day; after each
\* processed day no strategy left in the portfolio has such a leg.
C4_ExpiredRemovedOnce ==
    /\ \A k \in DOMAIN trace :
          LET day == trace[k]
              expired == { j \in DOMAIN day.valued :
                               HasExpiredLeg(day.valued[j], day.date) }
          IN  /\ Len(day.remaining) = Len(day.valued) - Cardinality(expired)
              /\ \A j \in expired :
                    /\ day.valued[j] \notin Elements(day.remaining)
                    /\ \A n \in DOMAIN trace :
                          n > k => day.valued[j] \notin Elements(trace[n].valued)
    /\ trace # << >> =>
          /\ portfolio.strategies = Last(trace).remaining
          /\ \A j \in DOMAIN portfolio.strategies :
                ~ HasExpiredLeg(portfolio.strategies[j], Last(trace).date)

\* a strategy expired on one day while another stayed, and a later day
\* has been processed
C4_Witness ==
    \E k \in DOMAIN trace :
        /\ k < Len(trace)
        /\ \E j \in DOMAIN trace[k].valued :
              HasExpiredLeg(trace[k].valued[j], trace[k].date)
        /\ trace[k].remaining # << >>

\* ------------------------------------------------------------------- C5
\* C5: a run processes the index dates of [start_date, end_date], each
\* exactly once and in strictly increasing order, appends one row per
\* processed date, and processes no date outside the interval.
C5_RunProcessesIntervalInOrder ==
    /\ Len(daily_results) = Len(trace)
    /\ \A k \in DOMAIN trace :
          /\ daily_results[k].date = trace[k].date
          /\ trace[k].date \in IntervalDates
    /\ \A k \in DOMAIN trace :
          (k > 1 /\ trace[k].run = trace[k - 1].run)
              => trace[k].date > trace[k - 1].date
    /\ \A r \in 1..runs :
          (r < runs \/ phase \in {"complete", "failed"})
              => { trace[k].date : k \in { n \in DOMAIN trace :
                                               trace[n].run = r } }
                     = IntervalDates

\* a completed run over an interval that leaves an index date out
C5_Witness ==
    /\ phase = "complete"
    /\ Len(daily_results) >= 2
    /\ \E d \in Elements(time_index) : d \notin IntervalDates

\* ------------------------------------------------------------------- C6
\* C6: each row's daily_pnl is its portfolio_value minus the previous
\* row's (the initial capital for the first row), its total_return is
\* (portfolio_value - initial_capital) / initial_capital, and after a
\* processed day prev_portfolio_value and prev_greeks are the value and
\* Greeks of the row just appended.
C6_DailyPnlAndCarryForward ==
    /\ \A k \in DOMAIN daily_results :
          LET row == daily_results[k]
              before == IF k = 1 THEN config.initial_capital
                        ELSE daily_results[k - 1].portfolio_value
          IN  /\ row.daily_pnl = row.portfolio_value - before
              /\ row.total_return.num
                     = row.portfolio_value - config.initial_capital
              /\ row.total_return.den = config.initial_capital
    /\ daily_results # << >> =>
          /\ prev_portfolio_value = Last(daily_results).portfolio_value
          /\ prev_greeks = RowGreeks(Last(daily_results))

\* a second row whose value differs from the first row's and from the
\* initial capital
C6_Witness ==
    /\ Len(daily_results) >= 2
    /\ daily_results[2].portfolio_value # daily_results[1].portfolio_value
    /\ daily_results[1].portfolio_value # config.initial_capital
    /\ daily_results[2].portfolio_value # config.initial_capital

\* ------------------------------------------------------------------- C7
\* C7: the first processed day has six zero components, and on every later
\* processed day the attribution step is run whatever the previous day's
\* portfolio value was: the row carries the step's Taylor terms of the
\* previous row's Greeks (six zeros when the previous spot lookup fails).
C7_AttributionRunAfterFirstDay ==
    \A k \in DOMAIN daily_results :
        IF k = 1 THEN RowAttributionZero(daily_results[1])
        ELSE RowFollowsAttribution(k)

\* ------------------------------------------------------------------- C8
\* C8: on a day where attribution is run, pnl_delta = previous row's delta
\* * dS, pnl_gamma = 0.5 * previous row's gamma * dS^2, pnl_theta =
\* previous row's theta, pnl_vega = pnl_rho = 0, dS being today's spot
\* minus the spot looked up for the day before; when that lookup fails all
\* six components are 0.
C8_AttributionUsesPreviousGreeks ==
    \A k \in DOMAIN trace :
        trace[k].attribution_run =>
            /\ k > 1
            /\ RowFollowsAttribution(k)
            /\ ~ PrevSpotKnown(trace[k].date)
                   => RowAttributionZero(daily_results[k])

\* attribution ran on a day whose spot moved and whose Greeks differ from
\* the previous row's, and ran on a day whose previous spot lookup failed
C8_Witness ==
    /\ \E k \in DOMAIN trace :
          /\ trace[k].attribution_run
          /\ PrevSpotKnown(trace[k].date)
          /\ daily_results[k].spot # PrevSpot(trace[k].date)
          /\ daily_results[k - 1].delta # 0
          /\ daily_results[k - 1].delta # daily_results[k].delta
    /\ \E k \in DOMAIN trace :
          /\ trace[k].attribution_run
          /\ ~ PrevSpotKnown(trace[k].date)

\* ------------------------------------------------------------------- C9
\* C9: add_strategy appends the strategy, and records exactly one ledger
\* entry whose cash_flow is -(entry value + transaction cost), transaction
\* cost = sum of |quantity| * per-contract cost + |entry value| *
\* percentage cost; cash decreases by that amount and the entry's
\* strategy_index is the index of the strategy just added.
C9_EntryRecordsOneTrade ==
    [][ AddStep =>
          LET added == Last(portfolio'.strategies)
              entry == Last(portfolio'.trade_history)
              entry_value == strategy_value(added.legs, entry.date)
              contracts == SumSeq([k \in DOMAIN added.legs |->
                                      Abs(added.legs[k].quantity)])
              cost == contracts * config.transaction_cost_per_contract
                          + Abs(entry_value) * config.transaction_cost_pct
          IN  /\ portfolio'.strategies = Append(portfolio.strategies, added)
              /\ added.id = num_added'
              /\ portfolio'.trade_history
                     = Append(portfolio.trade_history, entry)
              /\ entry.cash_flow = -(entry_value + cost)
              /\ portfolio'.cash = portfolio.cash - (entry_value + cost)
              /\ entry.strategy_index + 1 = Len(portfolio'.strategies)
              /\ portfolio'.strategies[entry.strategy_index + 1] = added
       ]_vars

\* a second strategy, with a short leg, was entered under non-zero costs
C9_Witness ==
    /\ Len(portfolio.strategies) = 2
    /\ Len(portfolio.trade_history) = 2
    /\ config.transaction_cost_pct > 0
    /\ portfolio.trade_history[2].strategy_index = 1
    /\ \E k \in DOMAIN portfolio.strategies[2].legs :
          portfolio.strategies[2].legs[k].quantity < 0

\* ------------------------------------------------------------------ C10
\* C10: a removal keeps prior indices valid: every strategy still in the
\* portfolio after a step is found at the index it had before the step.
C10_RemovalKeepsIndices ==
    [][ \A i \in DOMAIN portfolio.strategies :
          \A j \in DOMAIN portfolio'.strategies :
              portfolio.strategies[i].id = portfolio'.strategies[j].id
                  => i = j ]_vars

\* ------------------------------------------- vocabulary of the direct calls
\* the spot recorded for the latest series date on or before date
SpotOn(date) ==
    LET known == { d \in Elements(time_index) : d <= date }
    IN  spot_data[CHOOSE d \in known : \A e \in known : e <= d]

\* max(S - K, 0) for a call, max(K - S, 0) for a put
Intrinsic(option, S) ==
    IF option.option_type = "call"
    THEN Max(S - option.strike, 0)
    ELSE Max(option.strike - S, 0)

PriceCallAtOrAfterExpiry ==
    call.op = "price" /\ call.date >= call.option.expiry

GreeksCallAtOrAfterExpiry ==
    call.op = "greeks" /\ call.date >= call.option.expiry

\* ------------------------------------------------------------------ C11
\* C11: the batch removal of _handle_expirations leaves exactly the
\* strategies with no leg of expiry <= date, in their original order,
\* whatever the portfolio holds and whichever of them expire.
C11_BatchRemovalExact ==
    call.op = "handle_expirations" =>
        call.after = SelectSeq(call.before,
                               LAMBDA s : ~ HasExpiredLeg(s, call.date))

\* the first and the third of three strategies expire on the same day
\* and the second stays
C11_Witness ==
    /\ call.op = "handle_expirations"
    /\ Len(call.before) = 3
    /\ HasExpiredLeg(call.before[1], call.date)
    /\ ~ HasExpiredLeg(call.before[2], call.date)
    /\ HasExpiredLeg(call.before[3], call.date)
    /\ Len(call.after) = 1

\* ------------------------------------------------------------------ C12
\* C12: for every pricing model and contract, price at a date at or after
\* the expiry is the intrinsic value at the spot of that date.
C12_PriceAtExpiryIsIntrinsic ==
    PriceCallAtOrAfterExpiry =>
        call.value = Intrinsic(call.option, SpotOn(call.date))

\* the SABR model priced an in-the-money contract after its expiry
C12_Witness ==
    /\ PriceCallAtOrAfterExpiry
    /\ call.model = "SABR"
    /\ call.date > call.option.expiry
    /\ call.value > 0

\* ------------------------------------------------------------------ C13
\* C13: for every pricing model, the bump-and-revalue ones included,
\* greeks at a date at or after the expiry is delta = 1 when the intrinsic
\* value is positive and 0 otherwise, and gamma = vega = theta = rho = 0.
C13_GreeksAtExpiryDegenerate ==
    GreeksCallAtOrAfterExpiry =>
        call.greeks =
            [delta |-> IF Intrinsic(call.option, SpotOn(call.date)) > 0
                       THEN 1 ELSE 0,
             gamma |-> 0, vega |-> 0, theta |-> 0, rho |-> 0]

\* ------------------------------------------------------------------ C14
\* C14: at date = expiry the closed-form models return a put delta of -1
\* in the money and 0 otherwise, a call delta of 1 in the money and 0
\* otherwise, and every other Greek 0.
C14_ExpiryDeltaSign ==
    ( /\ call.op = "greeks"
      /\ call.model \in {"BlackScholes", "Bachelier"}
      /\ call.date = call.option.expiry ) =>
        LET S == SpotOn(call.date)
            K == call.option.strike
        IN  /\ call.option.option_type = "call" =>
                   call.greeks.delta = (IF S > K THEN 1 ELSE 0)
            /\ call.option.option_type = "put" =>
                   call.greeks.delta = (IF S < K THEN -1 ELSE 0)
            /\ call.greeks.gamma = 0
            /\ call.greeks.vega = 0
            /\ call.greeks.theta = 0
            /\ call.greeks.rho = 0

\* ------------------------------------------------------------------ C15
\* a greeks call of a bump-and-revalue model has returned
BumpedGreeksCall == call.op = "greeks" /\ call.scenarios # << >>

\* the implied vol a context shows for the option on its sample points
SampleVol(md, option, date) ==
    MarketData_get_implied_vol(md, date, option.strike, option.expiry,
        MarketData_get_spot(md, date), [kind |-> "raise", v |-> 0]).value.v

\* C15: each bump helper hands back a context showing the shock: the
\* spot-up and spot-down contexts show spot + 1% and spot - 1% of spot, the
\* vol-up context an implied vol raised by the bump, the rate-up context
\* rate + bump; so delta is a difference of prices at two different spots.
\* (Spots are compared in hundredths: 1% of S is S hundredths.)
C15_BumpsReflectShock ==
    BumpedGreeksCall =>
        LET original == deref(heap, CallerRef)
            up == deref(heap, call.scenarios.spot_up)
            down == deref(heap, call.scenarios.spot_down)
            vol_up == deref(heap, call.scenarios.vol_up)
            rate_up == deref(heap, call.scenarios.rate_up)
            S == MarketData_get_spot(original, call.date)
        IN  /\ 100 * MarketData_get_spot(up, call.date)
                   = 100 * S + S * BumpSize
            /\ 100 * MarketData_get_spot(down, call.date)
                   = 100 * S - S * BumpSize
            /\ SampleVol(vol_up, call.option, call.date)
                   = SampleVol(original, call.option, call.date) + BumpVol
            /\ MarketData_get_rate(rate_up, call.date)
                   = MarketData_get_rate(original, call.date) + BumpRate
            /\ MarketData_get_spot(up, call.date)
                   # MarketData_get_spot(down, call.date)

\* ------------------------------------------------------------------ C16
\* the objects of the caller's context and of the four scenarios
ScenarioRefs(c) ==
    {c.scenarios.spot_up, c.scenarios.spot_down, c.scenarios.vol_up,
     c.scenarios.rate_up}

C17_GetSpotBackwardOnly ==
    call.op = "get_spot" =>
        LET index == Elements(time_index)
            earlier == { d \in index : d < call.date }
        IN  IF call.date \in index
            THEN call.status = "returned"
                 /\ call.value = spot_data[call.date]
            ELSE IF earlier # {}
            THEN call.status = "returned"
                 /\ call.value
                       = spot_data[CHOOSE d \in earlier :
                                       \A e \in earlier : e <= d]
            ELSE call.status = "IndexError"

\* a date between two series dates carrying different spots was asked for
C17_Witness ==
    /\ call.op = "get_spot"
    /\ call.status = "returned"
    /\ call.date \notin Elements(time_index)
    /\ \E d \in Elements(time_index), e \in Elements(time_index) :
          /\ d < call.date /\ call.date < e
          /\ spot_data[d] # spot_data[e]
          /\ call.value = spot_data[d]

\* ------------------------------------------------------------------ C18
\* C18: get_implied_vol for a date without a surface falls back to the
\* most recent prior surface; no surface dated after the query date is
\* ever evaluated.
C18_NoFutureSurface ==
    (call.op = "get_implied_vol" /\ call.surface # 0) =>
        /\ call.surface <= call.date
        /\ \A d \in DOMAIN vol_surfaces : d <= call.date => d <= call.surface

C20_IvRoutes ==
    call.op = "iv" =>
        LET surface == vol_surfaces[call.surface]
            vd == surface.vol_data
            days == IF call.expiry.kind = "date"
                    THEN call.expiry.v - surface.date
                    ELSE call.expiry.v
            dist2(k) == (vd[k].strike - call.strike)
                            * (vd[k].strike - call.strike)
                        + (vd[k].days_to_expiry - days)
                              * (vd[k].days_to_expiry - days)
        IN  IF days <= 0
            THEN call.value = Num(0)
            ELSE IF call.outcome.kind # "raise"
            THEN /\ call.value.kind = "num"
                 /\ VolFloor <= call.value.v
                 /\ call.value.v <= VolCap
            ELSE \E k \in DOMAIN vd :
                    /\ \A j \in DOMAIN vd : dist2(k) <= dist2(j)
                    /\ call.value = Num(vd[k].implied_vol)

\* ------------------------------------------------------------------ C21
\* C21: no result row is appended whose portfolio value or Greeks are
\* undefined: a day whose valuation meets a degenerate input (an implied
\* vol of 0.0 for an option with time to expiry left) gets no row.
C21_NoUndefinedRow ==
    \A k \in DOMAIN trace : trace[k].greeks_defined

\* C22: a strategy added with an exit_date is out of the portfolio on every
\* processed day later than that date.
C22_ExitedOnExitDate ==
    \A i \in Engines : \A k \in DOMAIN engines[i].calls :
        LET c == engines[i].calls[k]
            held == engines[i].portfolio.strategies
        IN  (/\ c.exit_date # << >>
             /\ engines[i].daily_results # << >>
             /\ engines[i].current_date > Head(c.exit_date))
            => /\ \A j \in DOMAIN held : held[j].id # c.strategy.id
               /\ Last(engines[i].daily_results).num_strategies = 0

\* C26: whatever the order of the steps of two engines on the same market
\* data and strategy objects, each engine's rows, cash and ledger are
\* those of the engine running alone.
C26_NoCollision ==
    \A i \in Engines :
        LET e == engines[i]
            dates == [k \in DOMAIN e.daily_results |->
                         e.daily_results[k].date]
            alone == run_alone(e.calls, dates, config)
        IN  /\ e.daily_results = alone.daily_results
            /\ e.portfolio.cash = alone.portfolio.cash
            /\ e.portfolio.trade_history = alone.portfolio.trade_history

\* the engines have each processed a day, one a day further than the other,
\* on a strategy both hold
C26_Witness ==
    /\ \A i \in Engines : engines[i].daily_results # << >>
    /\ \E i, j \in Engines :
          Len(engines[i].daily_results) > Len(engines[j].daily_results)
    /\ \A i \in Engines : engines[i].calls # << >>

\* ------------------------------------------------------------------ C23
\* C23: while run() is in progress the market context, the configuration
\* and the legs of the strategies are left as they are, and a processed
\* day writes nothing but the portfolio's cash, strategy list and ledger
\* and the engine's current date, carried-forward value and Greeks and
\* result log.
C23_RunLeavesInputsAlone ==
    [][ (phase = "running" \/ phase' = "running") =>
          /\ UNCHANGED << time_index, spot_data, risk_free_rates,
                          dividend_yields, vol_surfaces, heap, config >>
          /\ portfolio'.initial_cash = portfolio.initial_cash
          /\ \A i \in DOMAIN portfolio'.strategies :
                \E j \in DOMAIN portfolio.strategies :
                    portfolio'.strategies[i] = portfolio.strategies[j]
          /\ DayStep => UNCHANGED << phase, runs, num_added, engines >> ]_vars

\* on a context with a surface, a day was processed on which one strategy
\* was settled and removed and another stayed in the portfolio
C23_Witness ==
    /\ vol_surfaces # << >>
    /\ portfolio.strategies # << >>
    /\ \E k \in DOMAIN trace :
          /\ k = Len(trace)
          /\ trace[k].remaining = portfolio.strategies
          /\ Len(trace[k].remaining) < Len(trace[k].valued)

\* ------------------------------------------------------------------ C24
\* C24: the trade ledger only grows at its end: every step keeps the
\* entries it found, in place and unchanged; a call of add_strategy appends
\* one entry and a processed day one entry per settled leg; the last entry's
\* cash_balance is the portfolio's cash after its cash flow was applied.
C24_LedgerAppendOnly ==
    [][ LET before == portfolio.trade_history
            after == portfolio'.trade_history
        IN  /\ Len(after) >= Len(before)
            /\ SubSeq(after, 1, Len(before)) = before
            /\ AddStep => Len(after) = Len(before) + 1
            /\ DayStep => Len(after) = Len(before)
                   + Len(ExpiredLegs(portfolio.strategies, current_date'))
            /\ Len(after) > Len(before)
                   => Last(after).cash_balance = portfolio'.cash ]_vars

\* the ledger holds an entry trade followed by a settlement that paid out
C24_Witness ==
    /\ Len(portfolio.trade_history) >= 3
    /\ \E k \in DOMAIN portfolio.trade_history :
          /\ k > 1
          /\ portfolio.trade_history[k].description = "Expiration"
          /\ portfolio.trade_history[k].cash_flow # 0
          /\ portfolio.trade_history[k].cash_balance = portfolio.cash

\* ------------------------------------------------------------------ C25
\* the contracts held by the legs of a sequence of strategies
ContractsOf(strats) ==
    UNION { { strats[i].legs[k].contract : k \in DOMAIN strats[i].legs } :
                i \in DOMAIN strats }

\* the contracts held by a leg anywhere in the state
HeldContracts ==
    ContractsOf(portfolio.strategies)
        \cup UNION { ContractsOf(engines[i].portfolio.strategies) :
                         i \in Engines }
        \cup (IF call.op = "handle_expirations"
              THEN ContractsOf(call.before) ELSE {})

ValidContract(c) ==
    /\ c.option_type \in {"call", "put"}
    /\ c.style \in {"european", "american"}
    /\ c.strike > 0

\* C25: constructing an OptionContract with an option_type other than call
\* or put, a style other than european or american, or a strike <= 0 raises
\* ValueError and yields no contract; otherwise the contract carries the
\* arguments; every contract held by a leg satisfies the three constraints.
C25_ContractInvariants ==
    /\ call.op = "OptionContract" =>
          LET bad == \/ call.option_type \notin {"call", "put"}
                     \/ call.style \notin {"european", "american"}
                     \/ call.strike <= 0
          IN  /\ bad => (call.status = "ValueError" /\ call.made = << >>)
              /\ ~ bad => /\ call.status = "returned"
                          /\ Len(call.made) = 1
                          /\ ValidContract(call.made[1])
                          /\ call.made[1].strike = call.strike
                          /\ call.made[1].option_type = call.option_type
                          /\ call.made[1].style = call.style
    /\ \A c \in HeldContracts : ValidContract(c)

\* a constructor call with a strike of zero and otherwise valid arguments
\* raised
C25_Witness ==
    /\ call.op = "OptionContract"
    /\ call.strike = 0
    /\ call.option_type = "put"
    /\ call.style = "american"
    /\ call.status = "ValueError"

\* ------------------------------------------------------------------ C28
\* C28: the row of a processed day carries the value and the Greeks of the
\* portfolio as it was before the day's settlement, and the cash and the
\* number of strategies of the portfolio as the settlement and the removal
\* have left it; the value and Greeks carried forward are the row's.
C28_OrderWithinDay ==
    [][ DayStep =>
          LET row == Last(daily_results')
          IN  /\ row.date = current_date'
              /\ row.portfolio_value = portfolio_value(portfolio, row.date)
              /\ RowGreeks(row) = portfolio_greeks(portfolio, row.date)
              /\ row.cash = portfolio'.cash
              /\ row.num_strategies = Len(portfolio'.strategies)
              /\ prev_portfolio_value' = row.portfolio_value
              /\ prev_greeks' = RowGreeks(row) ]_vars

\* a day on which a settlement paid out and removed a strategy: the row's
\* cash differs from the cash that was valued, and its value is not the
\* value of what is left
C28_Witness ==
    \E k \in DOMAIN trace :
        /\ k = Len(daily_results)
        /\ Len(trace[k].remaining) < Len(trace[k].valued)
        /\ daily_results[k].cash # trace[k].cash_before
        /\ daily_results[k].cash = portfolio.cash
        /\ daily_results[k].portfolio_value
               # portfolio_value(portfolio, trace[k].date)

\* ------------------------------------------------------------------ C29
\* C29: when a processed day removes a strategy, the day's settlement has
\* recorded one ledger entry for each of the strategy's legs, a leg that
\* expires later included.
C29_RemovedStrategyFullySettled ==
    [][ DayStep =>
          LET before == portfolio.trade_history
              after == portfolio'.trade_history
              left == { portfolio'.strategies[j].id :
                            j \in DOMAIN portfolio'.strategies }
          IN  \A i \in DOMAIN portfolio.strategies :
                  portfolio.strategies[i].id \notin left =>
                      Cardinality({ k \in (Len(before) + 1)..Len(after) :
                                        /\ after[k].description = "Expiration"
                                        /\ after[k].strategy_index = i - 1 })
                          = Len(portfolio.strategies[i].legs) ]_vars

\* ------------------------------------------------------------------ C30
\* C30: the result log holds at most one row per date, in strictly
\* increasing date order, in every state, a second call of run() included.
C30_OneRowPerDate ==
    \A j, k \in DOMAIN daily_results :
        j < k => daily_results[j].date < daily_results[k].date
====
